---- MODULE Spec2Model ----
(***************************************************************************)
(* Order / payment state machine and notification fan-out of the Vendorr   *)
(* backend: app/routers/orders.py, app/admin_dashboard.py,                 *)
(* app/websockets.py, app/routers/websocket.py.                            *)
(*                                                                         *)
(* Handlers are coroutines on one event loop: a handler runs atomically    *)
(* from one await that really suspends (a WebSocket send or receive) to    *)
(* the next.  SQLAlchemy calls are synchronous and do not suspend.         *)
(***************************************************************************)
EXTENDS Integers, Sequences, FiniteSets, TLC

\* ---------------------------------------------------------------- bounds
MaxNow == 3        \* commits and broadcasts in one behaviour (logical clock)
MaxOrders == 1     \* rows of the orders table
MaxTasks == 1      \* HTTP handlers suspended in a fan-out at the same time
NumSockets == 2    \* WebSocket connections opened in one behaviour
OrderSockets == 1  \* of which under Spec
MaxItems == 2      \* items of one create_order request
MaxQty == 2        \* quantity of one requested item
NumWorkers == 2    \* requests of other worker processes between query and commit
WorkerOrders == 2  \* rows of the orders table when several workers serve requests

\* ------------------------------------------------------- program constants
NoTime == 0                 \* None in a DateTime column

OrderStatus ==
    {"pending_payment", "payment_confirmed", "preparing", "almost_ready",
     "ready_for_pickup", "completed", "cancelled"}

PaymentStatus == {"pending", "completed", "failed", "refunded"}

\* users table: two customers and one admin
Users == {1, 2, 3}
UserRole == [u \in Users |-> IF u = 3 THEN "admin" ELSE "customer"]

WebSockets == 1..NumSockets
Workers == 1..NumWorkers
NoWs == 0
TaxRatePercent == 15         \* "tax_amount = subtotal * 0.15  # 15% VAT" of the mock router
TaskIds == 1..MaxTasks
MenuIds == {1, 2}
MenuPrice == [m \in MenuIds |-> IF m = 1 THEN 1299 ELSE 850]   \* cents

VARIABLES
    now,                 \* logical clock, datetime.utcnow(): ticks at each order commit and broadcast
    menu_items,          \* menu_items table: id -> row
    orders,              \* orders table: sequence of rows, id = index
    order_items,         \* order_items table: sequence of rows
    bank_transfers,      \* bank_transfers table: sequence of rows
    notifications,       \* notifications table: sequence of rows
    active_connections,  \* manager.active_connections, in dict insertion order
    admin_connections,   \* manager.admin_connections
    ws,                  \* per WebSocket: endpoint coroutine and transport
    tasks,               \* HTTP handlers suspended in a notification fan-out
    workers,             \* requests in other worker processes, between query and commit
    resp                 \* the response being returned by the request that just finished

vars == <<now, menu_items, orders, order_items, bank_transfers, notifications,
          active_connections, admin_connections, ws, tasks, workers, resp>>

dbvars == <<menu_items, orders, order_items, bank_transfers, notifications>>
regvars == <<active_connections, admin_connections>>

\* ------------------------------------------------------ sequence helpers
Range(s) == {s[i] : i \in 1..Len(s)}

Remove(s, i) == SubSeq(s, 1, i - 1) \o SubSeq(s, i + 1, Len(s))

\* list.remove(x): drops the first occurrence
IndexOf(s, x) == CHOOSE i \in 1..Len(s) : s[i] = x /\ \A j \in 1..(i - 1) : s[j] # x

ListRemove(s, x) == IF x \in Range(s) THEN Remove(s, IndexOf(s, x)) ELSE s

\* --------------------------------------------- ConnectionManager registry
\* active_connections is a dict {user_id: [websocket, ...]}; an entry is
\* [user_id, lid, conns] where lid identifies the list object (the socket
\* whose connect created it), so that an iterator over a list that has been
\* deleted from the dict and re-created can tell the two objects apart.
HasUser(ac, u) == \E i \in 1..Len(ac) : ac[i].user_id = u

EntryIdx(ac, u) == CHOOSE i \in 1..Len(ac) : ac[i].user_id = u

ConnsOf(ac, u) == IF HasUser(ac, u) THEN ac[EntryIdx(ac, u)].conns ELSE <<>>

ListId(ac, u) == IF HasUser(ac, u) THEN ac[EntryIdx(ac, u)].lid ELSE NoWs

\* the list object lid as it is now: empty once it has left the dict
ListObj(ac, lid) ==
    IF \E i \in 1..Len(ac) : ac[i].lid = lid
    THEN ac[CHOOSE i \in 1..Len(ac) : ac[i].lid = lid].conns
    ELSE <<>>

AllUserConns(ac) == UNION {Range(ac[i].conns) : i \in 1..Len(ac)}

\* every connection the registry holds
AllConns(ac, adm) == AllUserConns(ac) \cup adm

\* ConnectionManager.connect, after websocket.accept()
connect_mut(ac, adm, c, user_id, is_admin) ==
    [ac |-> IF HasUser(ac, user_id)
            THEN [ac EXCEPT ![EntryIdx(ac, user_id)].conns = Append(@, c)]
            ELSE Append(ac, [user_id |-> user_id, lid |-> c, conns |-> <<c>>]),
     adm |-> IF is_admin THEN adm \cup {c} ELSE adm]

connect(ac, adm, c, user_id, is_admin) ==
    IF is_admin
    THEN [ac |-> ac, adm |-> adm \cup {c}]
    ELSE IF HasUser(ac, user_id)
         THEN [ac |-> [ac EXCEPT ![EntryIdx(ac, user_id)].conns = Append(@, c)],
               adm |-> adm]
         ELSE [ac |-> Append(ac, [user_id |-> user_id, lid |-> c, conns |-> <<c>>]),
               adm |-> adm]

disconnect_mut(ac, adm, c, user_id, is_admin) ==
    IF is_admin
    THEN [ac |-> ac, adm |-> adm \ {c}]
    ELSE IF user_id # 0 /\ HasUser(ac, user_id)
         THEN [ac |-> Remove(ac, EntryIdx(ac, user_id)), adm |-> adm]
         ELSE [ac |-> ac, adm |-> adm]

\* ConnectionManager.disconnect
disconnect(ac, adm, c, user_id, is_admin) ==
    IF is_admin
    THEN [ac |-> ac, adm |-> adm \ {c}]
    ELSE IF user_id # 0 /\ HasUser(ac, user_id)
         THEN LET i == EntryIdx(ac, user_id)
                  l == ListRemove(ac[i].conns, c)
              IN  IF l = <<>>
                  THEN [ac |-> Remove(ac, i), adm |-> adm]
                  ELSE [ac |-> [ac EXCEPT ![i].conns = l], adm |-> adm]
         ELSE [ac |-> ac, adm |-> adm]

RECURSIVE Cleanup_mut(_, _, _, _, _)
Cleanup_mut(ac, adm, disc, user_id, is_admin) ==
    IF disc = <<>>
    THEN [ac |-> ac, adm |-> adm]
    ELSE LET r == IF is_admin \/ ~HasUser(ac, user_id)
                  THEN disconnect(ac, adm, Head(disc), user_id, is_admin)
                  ELSE [ac |-> [ac EXCEPT ![EntryIdx(ac, user_id)].conns =
                                              ListRemove(@, Head(disc))],
                        adm |-> adm]
         IN  Cleanup_mut(r.ac, r.adm, Tail(disc), user_id, is_admin)

\* "for conn in disconnected: self.disconnect(conn, ...)"
RECURSIVE Cleanup(_, _, _, _, _)
Cleanup(ac, adm, disc, user_id, is_admin) ==
    IF disc = <<>>
    THEN [ac |-> ac, adm |-> adm]
    ELSE LET r == disconnect(ac, adm, Head(disc), user_id, is_admin)
         IN  Cleanup(r.ac, r.adm, Tail(disc), user_id, is_admin)

\* ------------------------------------------------- notification messages
\* One shape for every pushed event: the fields of the message dict and of
\* its "data" member that the handlers fill in ("" / 0 where a notification
\* type has no such member), plus the timestamp added by the manager.
NoMsg == [notification_type |-> "", title |-> "", order_id |-> 0,
          order_number |-> <<>>, status |-> "", total_amount |-> 0, timestamp |-> 0]

\* status_messages.get(new_status, default)["title"]
StatusTitle(s) ==
    CASE s = "pending_payment" -> "Order Created"
      [] s = "payment_confirmed" -> "Payment Confirmed"
      [] s = "preparing" -> "Order Preparing"
      [] s = "almost_ready" -> "Almost Ready!"
      [] s = "ready_for_pickup" -> "Order Ready!"
      [] s = "completed" -> "Order Completed"
      [] s = "cancelled" -> "Order Cancelled"
      [] OTHER -> "Order Update"

\* payment_messages.get(payment_status, default)["title"]
PaymentTitle(p) ==
    CASE p = "completed" -> "Payment Successful"
      [] p = "failed" -> "Payment Failed"
      [] p = "refunded" -> "Payment Refunded"
      [] OTHER -> "Payment Update"

\* a pending call of the manager: target is "user" (send_personal_message),
\* "admins" (send_to_admins) or "list" (one user loop of broadcast, over the
\* list object captured by list(self.active_connections.items()))
Call(target, user, lid, msg) ==
    [target |-> target, user |-> user, lid |-> lid, msg |-> msg]

notify_order_status_change_mut(order_id, customer_id, new_status, order_number) ==
    Call("admins", 0, NoWs,
         [NoMsg EXCEPT !.notification_type = "order_status",
                       !.title = StatusTitle(new_status),
                       !.order_id = order_id,
                       !.order_number = order_number,
                       !.status = new_status])

\* manager.send_personal_message(notification, customer_id)
notify_order_status_change(order_id, customer_id, new_status, order_number) ==
    Call("user", customer_id, NoWs,
         [NoMsg EXCEPT !.notification_type = "order_status",
                       !.title = StatusTitle(new_status),
                       !.order_id = order_id,
                       !.order_number = order_number,
                       !.status = new_status])

notify_payment_status_change(order_id, customer_id, payment_status, order_number) ==
    Call("user", customer_id, NoWs,
         [NoMsg EXCEPT !.notification_type = "payment_status",
                       !.title = PaymentTitle(payment_status),
                       !.order_id = order_id,
                       !.order_number = order_number,
                       !.status = payment_status])

notify_admin_new_order(order_id, order_number, total_amount) ==
    Call("admins", 0, NoWs,
         [NoMsg EXCEPT !.notification_type = "new_order",
                       !.title = "New Order Received",
                       !.order_id = order_id,
                       !.order_number = order_number,
                       !.total_amount = total_amount])

notify_admin_payment_uploaded(order_id, order_number) ==
    Call("admins", 0, NoWs,
         [NoMsg EXCEPT !.notification_type = "payment_proof",
                       !.title = "Payment Proof Uploaded",
                       !.order_id = order_id,
                       !.order_number = order_number])

\* ------------------------------------------------------ handler coroutines
\* iterator of the fan-out loop a task is suspended in
NoIt == [target |-> "none", user |-> 0, lid |-> NoWs, idx |-> 0,
         visited |-> {}, snap |-> {}, disconnected |-> <<>>, msg |-> NoMsg]

\* Trace of one request, in program order.  Events: "commit", "commit_failed",
\* "raise", "rollback", "close"; "call" when a manager method is entered for a message
\* (target: "user", "admins" or "list", user: the addressee, targets: the
\* connections registered for the target at that moment) and "end" when its
\* loop and clean-up are over; "delivered" / "send_failed" for one send_text
\* (ws: the socket, user and target: whom the socket belongs to).
Mark(e) == [ev |-> e, ws |-> NoWs, target |-> "", user |-> 0, targets |-> {}, msg |-> NoMsg]

\* a send on socket c, whose endpoint authenticated it as sock.user_id
SendEvent(c, sock, msg) ==
    [Mark(IF sock.alive THEN "delivered" ELSE "send_failed") EXCEPT
        !.ws = c, !.msg = msg, !.user = sock.user_id,
        !.target = IF sock.is_admin THEN "admins" ELSE "user"]

CallEvent(target, user, targets, msg) ==
    [Mark("call") EXCEPT !.target = target, !.user = user, !.targets = targets, !.msg = msg]

IdleTask ==
    [pc |-> "idle", op |-> "", caller |-> 0, order_id |-> 0, arg |-> "", fault |-> "none",
     before |-> "", items |-> <<>>, reg |-> {}, result |-> "", trace |-> <<>>,
     queue |-> <<>>, it |-> NoIt]

\* a request: who calls, the order and the value it names, the injected
\* persistence fault, and the order's status when the handler starts
NewTask(op, caller, order_id, arg, fault, before) ==
    [IdleTask EXCEPT !.pc = "run", !.op = op, !.caller = caller, !.order_id = order_id,
                     !.arg = arg, !.fault = fault, !.before = before]

Outcome(tk, ac, adm, valid) == [task |-> tk, ac |-> ac, adm |-> adm, valid |-> valid]

\* the handler returns its response
Return(tk, code) == [tk EXCEPT !.pc = "done", !.result = code, !.it = NoIt, !.queue = <<>>]

\* "except Exception as e: db.rollback(); raise HTTPException(500)" of the
\* HTTP handlers; a bare manager call (broadcast) just raises
Except(tk) ==
    IF tk.op = "broadcast"
    THEN Return([tk EXCEPT !.trace = Append(@, Mark("raise"))], "raised")
    ELSE Return([tk EXCEPT !.trace = Append(Append(@, Mark("raise")), Mark("rollback"))], "500")

\* "try: await connection.send_text(message_json)
\*  except Exception: disconnected.append(connection)"
send_text(tk, c, sock) ==
    [tk EXCEPT !.trace = Append(@, SendEvent(c, sock, tk.it.msg)),
               !.it.disconnected = IF sock.alive THEN @ ELSE Append(@, c)]

\* the manager method is entered: json.dumps({**message, "timestamp": ...})
Enter(tk, n, targets, lid, clock) ==
    LET m == [n.msg EXCEPT !.timestamp = clock] IN
    [tk EXCEPT !.queue = Tail(@),
               !.trace = Append(@, CallEvent(n.target, n.user, targets, m)),
               !.it = [NoIt EXCEPT !.target = n.target, !.user = n.user, !.lid = lid,
                                   !.snap = IF n.target = "admins" THEN targets ELSE {},
                                   !.msg = m]]

\* the manager method returns
Leave(tk) == [tk EXCEPT !.it = NoIt, !.trace = Append(@, Mark("end"))]

\* Runs task tk from the point where it is resumed to its next suspension
\* (the next send) or to its return.  A send on c succeeds while
\* live[c].alive; pick is the element the set iterator of send_to_admins yields
\* next (NoWs: the iterator is exhausted); valid tells whether pick was a
\* value the iterator can produce.
RECURSIVE Proceed(_, _, _, _, _, _)
RECURSIVE Resume(_, _, _, _, _, _)
Resume(tk, ac, adm, live, pick, clock) ==
    LET it == tk.it IN
    IF it.target = "admins"
    THEN \* for connection in self.admin_connections
         IF Cardinality(adm) # Cardinality(it.snap)
         THEN \* RuntimeError: Set changed size during iteration
              Outcome(Except(tk), ac, adm, pick = NoWs)
         ELSE IF pick # NoWs
              THEN Outcome(send_text([tk EXCEPT !.it.visited = @ \cup {pick}], pick, live[pick]),
                           ac, adm, pick \in adm \ it.visited)
              ELSE LET r == Cleanup(ac, adm, it.disconnected, 0, TRUE)
                       o == Proceed(Leave(tk), r.ac, r.adm, live, NoWs, clock)
                   IN  [o EXCEPT !.valid = @ /\ (adm \ it.visited = {} \/ adm # it.snap)]
    ELSE \* for connection in self.active_connections[user_id]
         LET l == ListObj(ac, it.lid) IN
         IF it.idx < Len(l)
         THEN Outcome(send_text([tk EXCEPT !.it.idx = @ + 1], l[it.idx + 1], live[l[it.idx + 1]]),
                      ac, adm, pick = NoWs)
         ELSE LET r == Cleanup(ac, adm, it.disconnected, it.user, FALSE)
              IN  Proceed(Leave(tk), r.ac, r.adm, live, pick, clock)

NoTargets_mut(ac, adm, n) == FALSE

\* "if user_id in self.active_connections" of send_personal_message and
\* "if not self.admin_connections: return" of send_to_admins
NoTargets(ac, adm, n) ==
    CASE n.target = "user" -> ~HasUser(ac, n.user)
      [] n.target = "admins" -> adm = {}
      [] OTHER -> FALSE

Proceed(tk, ac, adm, live, pick, clock) ==
    IF tk.queue = <<>>
    THEN Outcome(Return(tk, IF tk.op = "broadcast" THEN "returned" ELSE "200"),
                 ac, adm, pick = NoWs)
    ELSE LET n == Head(tk.queue) IN
         CASE n.target = "user" ->
                \* send_personal_message; self.active_connections[user_id] of
                \* an absent user would raise KeyError
                IF NoTargets(ac, adm, n)
                THEN Proceed(Leave(Enter(tk, n, {}, NoWs, clock)), ac, adm, live, pick, clock)
                ELSE IF ~HasUser(ac, n.user)
                THEN Outcome(Except(Enter(tk, n, {}, NoWs, clock)), ac, adm, pick = NoWs)
                ELSE Resume(Enter(tk, n, Range(ConnsOf(ac, n.user)), ListId(ac, n.user), clock),
                            ac, adm, live, pick, clock)
           [] n.target = "list" ->
                \* broadcast: for connection in connections
                Resume(Enter(tk, n, Range(ListObj(ac, n.lid)), n.lid, clock),
                       ac, adm, live, pick, clock)
           [] n.target = "admins" ->
                \* send_to_admins
                IF NoTargets(ac, adm, n)
                THEN Proceed(Leave(Enter(tk, n, {}, NoWs, clock)), ac, adm, live, pick, clock)
                ELSE Resume(Enter(tk, n, adm, NoWs, clock), ac, adm, live, pick, clock)

\* what the caller of a finished request observes, with the request's trace
Response(tk) ==
    [op |-> tk.op, caller |-> tk.caller, order_id |-> tk.order_id, arg |-> tk.arg,
     fault |-> tk.fault, before |-> tk.before, items |-> tk.items, reg |-> tk.reg,
     result |-> tk.result,
     trace |-> tk.trace]

NoResponse == Response(IdleTask)

\* order_number = f"ORD{order_count:06d}": the decimal digits of the count,
\* padded with zeros on the left to at least six, after "ORD"
DigitChar == <<"0", "1", "2", "3", "4", "5", "6", "7", "8", "9">>

RECURSIVE Digits(_)
Digits(n) ==
    IF n < 10 THEN <<DigitChar[n + 1]>>
    ELSE Append(Digits(n \div 10), DigitChar[(n % 10) + 1])

RECURSIVE ZeroPad(_, _)
ZeroPad(s, width) == IF Len(s) >= width THEN s ELSE ZeroPad(<<"0">> \o s, width)

OrderNumber(order_count) == <<"O", "R", "D">> \o ZeroPad(Digits(order_count), 6)

\* order = Order(order_number=..., customer_id=..., status="pending_payment", ...)
NewOrder(id, order_count, caller, subtotal, tax_amount, total_amount) ==
    [id |-> id,
     order_number |-> OrderNumber(order_count),
     customer_id |-> caller,
     status |-> "pending_payment",
     payment_status |-> "pending",
     subtotal |-> subtotal,
     tax_amount |-> tax_amount,
     total_amount |-> total_amount,
     updated_at |-> NoTime,
     actual_ready_time |-> NoTime]

\* a worker process between two requests; while it serves one, the request
\* and the Order object its session holds
NoOrder == NewOrder(0, 0, 0, 0, 0, 0)
IdleWorker == [pc |-> "idle", task |-> IdleTask, row |-> NoOrder]

\* ------------------------------------------------------------ inputs
StatusInputs == OrderStatus \cup {"ready"}          \* "ready" is not an OrderStatus
PaymentInputs == PaymentStatus \cup {"confirmed"}   \* "confirmed" is not a PaymentStatus
OrderIdInputs == 1..MaxOrders
MenuIdInputs == MenuIds \cup {3}                    \* 3: no such menu item
ItemInputs == [menu_item_id : MenuIdInputs, quantity : 1..MaxQty]
ItemLists == UNION {[1..n -> ItemInputs] : n \in 1..MaxItems}
SingleItems == {l \in ItemLists : Len(l) = 1}
\* bearer tokens of a push connection: undecodable or expired, without
\* subject, or with a subject (user 4 does not exist)
Tokens == {[valid |-> FALSE, sub |-> 0], [valid |-> TRUE, sub |-> 0]}
          \cup {[valid |-> TRUE, sub |-> u] : u \in Users \cup {4}}
Picks == WebSockets \cup {NoWs}
\* JSON bodies of PUT /admin/api/menu/items/{item_id}: each key is absent
\* (<<>>) or carries a value
PriceInputs == {999}
MenuData == [price : {<<>>} \cup {<<p>> : p \in PriceInputs},
             available : {<<>>, <<TRUE>>, <<FALSE>>}]

\* ------------------------------------------------------------- state
NewWs == [pc |-> "new", endpoint |-> "", user_id |-> 0, is_admin |-> FALSE, alive |-> FALSE]

ClosedWs == [NewWs EXCEPT !.pc = "closed"]

Live == ws

Init ==
    /\ now = 0
    /\ menu_items = [m \in MenuIds |->
                        [status |-> IF m = 1 THEN "available" ELSE "unavailable",
                         is_available |-> (m = 1),
                         price |-> MenuPrice[m]]]
    /\ orders = <<>>
    /\ order_items = <<>>
    /\ bank_transfers = <<>>
    /\ notifications = <<>>
    /\ active_connections = <<>>
    /\ admin_connections = {}
    /\ ws = [c \in WebSockets |-> NewWs]
    /\ tasks = [t \in TaskIds |-> IdleTask]
    /\ workers = [w \in Workers |-> IdleWorker]
    /\ resp = NoResponse

\* Nothing else runs between the last step of a handler and the moment its
\* response is handed over: resp holds the response for that one state.
Quiet == resp = NoResponse

Reply ==
    /\ ~Quiet
    /\ resp' = NoResponse
    /\ UNCHANGED <<now, dbvars, regvars, ws, tasks, workers>>

\* a request is accepted into the lowest free coroutine slot
FreeTask(t) ==
    /\ Quiet
    /\ tasks[t].pc = "idle"
    /\ \A s \in 1..(t - 1) : tasks[s].pc # "idle"

\* the coroutine of slot t has run to outcome o
Settle(t, o) ==
    /\ o.valid
    /\ active_connections' = o.ac
    /\ admin_connections' = o.adm
    /\ IF o.task.pc = "done"
       THEN tasks' = [tasks EXCEPT ![t] = IdleTask] /\ resp' = Response(o.task)
       ELSE tasks' = [tasks EXCEPT ![t] = o.task] /\ UNCHANGED resp

\* the handler fails before it notifies anybody
Fail(tk, code, pick) ==
    Outcome(Return(tk, code), active_connections, admin_connections, pick = NoWs)

Failed == <<Mark("raise"), Mark("rollback")>>

\* db.commit() raises inside the handler's try block
CommitFailed == <<Mark("commit_failed"), Mark("rollback")>>

Notify_mut(tk, calls, pick) ==
    LET o == Proceed([tk EXCEPT !.queue = calls],
                     active_connections, admin_connections, Live, pick, now + 1)
    IN  [o EXCEPT !.task.trace = Append(@, Mark("commit"))]

\* db.commit(), then the notifications of the handler
Notify(tk, calls, pick) ==
    Proceed([tk EXCEPT !.trace = Append(@, Mark("commit")), !.queue = calls],
            active_connections, admin_connections, Live, pick, now + 1)

OrderExists(order_id) == order_id \in 1..Len(orders)

StatusOf(order_id) == IF OrderExists(order_id) THEN orders[order_id].status ELSE ""

\* ---------------------------------------------- app/routers/orders.py
OwnOrder_mut(caller, order_id) == OrderExists(order_id)

\* db.query(Order).filter(Order.id == order_id)
\*                .filter(Order.customer_id == current_user.id).first()
OwnOrder(caller, order_id) ==
    OrderExists(order_id) /\ orders[order_id].customer_id = caller

Cancellable_mut(order) == order.status \in {"pending_payment", "payment_confirmed"}

\* the guard of cancel_order
Cancellable(order) == order.status = "pending_payment"

\* POST /api/orders/{order_id}/cancel
cancel_order(caller, order_id, fault) ==
    /\ Quiet
    /\ now < MaxNow
    /\ LET found == OwnOrder(caller, order_id)
           tk == NewTask("cancel_order", caller, order_id, "", fault, StatusOf(order_id))
       IN  IF ~found
           THEN /\ resp' = Response(Return(tk, "404"))
                /\ UNCHANGED <<now, orders>>
           ELSE IF ~Cancellable(orders[order_id])
           THEN /\ resp' = Response(Return(tk, "400"))
                /\ UNCHANGED <<now, orders>>
           ELSE IF fault = "commit"
           THEN \* db.commit() raises; get_db closes the session
                /\ resp' = Response(Return([tk EXCEPT !.trace = <<Mark("commit_failed")>>],
                                            "500"))
                /\ UNCHANGED <<now, orders>>
           ELSE /\ now' = now + 1
                /\ orders' = [orders EXCEPT ![order_id].status = "cancelled",
                                            ![order_id].updated_at = now + 1]
                /\ resp' = Response(Return([tk EXCEPT !.trace = <<Mark("commit")>>], "200"))
    /\ UNCHANGED <<menu_items, order_items, bank_transfers, notifications, regvars, ws, tasks, workers>>

RECURSIVE Subtotal_mut(_, _)
Subtotal_mut(menu, items) ==
    IF items = <<>> THEN 0
    ELSE menu[Head(items).menu_item_id].price + Subtotal_mut(menu, Tail(items))

\* subtotal += menu_item.price * item_data.quantity
RECURSIVE Subtotal(_, _)
Subtotal(menu, items) ==
    IF items = <<>> THEN 0
    ELSE menu[Head(items).menu_item_id].price * Head(items).quantity
         + Subtotal(menu, Tail(items))

\* the order_items_data rows of a request
ItemRows(menu, order_id, items) ==
    [i \in 1..Len(items) |->
        [order_id |-> order_id,
         menu_item_id |-> items[i].menu_item_id,
         quantity |-> items[i].quantity,
         unit_price |-> menu[items[i].menu_item_id].price,
         total_price |-> menu[items[i].menu_item_id].price * items[i].quantity]]

ItemMissing(menu, it) == it.menu_item_id \notin DOMAIN menu
ItemRefused_mut(menu, it) == ItemMissing(menu, it)

\* "if not menu_item: 404" and "if menu_item.status != 'available': 400"
ItemRefused(menu, it) == ItemMissing(menu, it) \/ menu[it.menu_item_id].status # "available"

rollback_mut(db, tx) == tx

\* db.rollback(): what the transaction has flushed so far is discarded
rollback(db, tx) == db

\* POST /api/orders/
create_order(t, caller, items, fault, pick) ==
    /\ FreeTask(t)
    /\ now < MaxNow
    /\ Len(orders) < MaxOrders
    /\ LET tk == [NewTask("create_order", caller, Len(orders) + 1, "", fault, "")
                    EXCEPT !.items = items]
           refused == {i \in 1..Len(items) : ItemRefused(menu_items, items[i])}
           first == CHOOSE i \in refused : \A j \in refused : i <= j
           subtotal == Subtotal(menu_items, items)
           tax_amount == 0
           total_amount == subtotal
           order_count == Len(orders) + 1
           order == NewOrder(order_count, order_count, caller, subtotal, tax_amount,
                             total_amount)
           rows == ItemRows(menu_items, order_count, items)
           db == [orders |-> orders, order_items |-> order_items]
           \* the transaction after db.flush(), with all but the last item row,
           \* and with every item row
           flushed == [db EXCEPT !.orders = Append(@, order)]
           partial == [flushed EXCEPT !.order_items = @ \o SubSeq(rows, 1, Len(rows) - 1)]
           full == [flushed EXCEPT !.order_items = @ \o rows]
       IN  IF refused # {}
           THEN \* HTTPException is re-raised as it is
                /\ Settle(t, Fail(tk, IF ItemMissing(menu_items, items[first])
                                      THEN "404" ELSE "400", pick))
                /\ UNCHANGED <<now, orders, order_items>>
           ELSE IF fault \in {"flush", "items", "commit"}
           THEN \* db.flush(), an item row or db.commit() raises: db.rollback(), 500
                LET tx == IF fault = "flush" THEN db
                          ELSE IF fault = "items" THEN partial ELSE full
                    after == rollback(db, tx)
                IN  /\ Settle(t, Fail([tk EXCEPT !.trace = IF fault = "commit"
                                                           THEN CommitFailed ELSE Failed],
                                       "500", pick))
                    /\ orders' = after.orders
                    /\ order_items' = after.order_items
                    /\ UNCHANGED now
           ELSE /\ now' = now + 1
                /\ orders' = full.orders
                /\ order_items' = full.order_items
                /\ IF fault = "refresh"
                   THEN \* db.refresh(order) or the reload query raises after the commit
                        Settle(t, Fail([tk EXCEPT !.trace = <<Mark("commit")>> \o Failed],
                                       "500", pick))
                   ELSE Settle(t, Notify(tk, <<notify_admin_new_order(
                                                  order_count, OrderNumber(order_count),
                                                  total_amount)>>,
                                         pick))
    /\ UNCHANGED <<menu_items, bank_transfers, notifications, ws, workers>>

\* the order as GET /api/orders/{order_id}/ serialises it: the stored row and
\* its order_items rows, each with its menu item joined in
get_order_mut(rows, item_rows, menu, caller, order_id) ==
    IF order_id \in 1..Len(rows) /\ rows[order_id].customer_id = caller
    THEN LET Mine(r) == r.order_id = order_id
             mine == SelectSeq(item_rows, Mine)
         IN  [code |-> "200",
              subtotal |-> rows[order_id].subtotal,
              tax_amount |-> rows[order_id].tax_amount,
              total_amount |-> rows[order_id].total_amount,
              items |-> [i \in 1..Len(mine) |->
                            [menu_item_id |-> mine[i].menu_item_id,
                             quantity |-> mine[i].quantity,
                             unit_price |-> menu[mine[i].menu_item_id].price,
                             total_price |-> menu[mine[i].menu_item_id].price
                                             * mine[i].quantity,
                             menu_item |-> menu[mine[i].menu_item_id]]]]
    ELSE [code |-> "404", subtotal |-> 0, tax_amount |-> 0, total_amount |-> 0,
          items |-> <<>>]

get_order(rows, item_rows, menu, caller, order_id) ==
    IF order_id \in 1..Len(rows) /\ rows[order_id].customer_id = caller
    THEN LET Mine(r) == r.order_id = order_id
             mine == SelectSeq(item_rows, Mine)
         IN  [code |-> "200",
              subtotal |-> rows[order_id].subtotal,
              tax_amount |-> rows[order_id].tax_amount,
              total_amount |-> rows[order_id].total_amount,
              items |-> [i \in 1..Len(mine) |->
                            [menu_item_id |-> mine[i].menu_item_id,
                             quantity |-> mine[i].quantity,
                             unit_price |-> mine[i].unit_price,
                             total_price |-> mine[i].total_price,
                             menu_item |-> menu[mine[i].menu_item_id]]]]
    ELSE [code |-> "404", subtotal |-> 0, tax_amount |-> 0, total_amount |-> 0,
          items |-> <<>>]

\* an admin menu handler answers; "except Exception" turns its own
\* HTTPException(404) into a 500
MenuReply(op, fault, code, trace) ==
    resp' = Response(Return([NewTask(op, 0, 0, "", fault, "") EXCEPT !.trace = trace], code))

\* POST /admin/api/menu/{item_id}/toggle-availability
toggle_menu_availability(item_id, fault) ==
    /\ Quiet
    /\ IF item_id \notin DOMAIN menu_items
       THEN /\ MenuReply("toggle_menu_availability", fault, "500", Failed)
            /\ UNCHANGED menu_items
       ELSE IF fault = "commit"
       THEN /\ MenuReply("toggle_menu_availability", fault, "500", CommitFailed)
            /\ UNCHANGED menu_items
       ELSE /\ menu_items' = [menu_items EXCEPT ![item_id].is_available = ~@]
            /\ MenuReply("toggle_menu_availability", fault, "200", <<Mark("commit")>>)
    /\ UNCHANGED <<now, orders, order_items, bank_transfers, notifications, regvars, ws, tasks, workers>>

\* PUT /admin/api/menu/items/{item_id}; every menu row here carries a status,
\* so the repair of a NULL status does not apply
update_menu_item(item_id, data, fault) ==
    /\ Quiet
    /\ IF item_id \notin DOMAIN menu_items
       THEN /\ MenuReply("update_menu_item", fault, "500", Failed)
            /\ UNCHANGED menu_items
       ELSE IF fault = "commit"
       THEN /\ MenuReply("update_menu_item", fault, "500", CommitFailed)
            /\ UNCHANGED menu_items
       ELSE LET row == menu_items[item_id]
                priced == IF data.price # <<>> THEN [row EXCEPT !.price = data.price[1]]
                          ELSE row
                set == IF data.available # <<>>
                       THEN [priced EXCEPT !.is_available = data.available[1],
                                           !.status = IF data.available[1] THEN "available"
                                                      ELSE "unavailable"]
                       ELSE priced
            IN  /\ menu_items' = [menu_items EXCEPT ![item_id] = set]
                /\ MenuReply("update_menu_item", fault, "200", <<Mark("commit")>>)
    /\ UNCHANGED <<now, orders, order_items, bank_transfers, notifications, regvars, ws, tasks, workers>>

\* DELETE /admin/api/menu/items/{item_id}
delete_menu_item(item_id, fault) ==
    /\ Quiet
    /\ IF item_id \notin DOMAIN menu_items
       THEN /\ MenuReply("delete_menu_item", fault, "500", Failed)
            /\ UNCHANGED menu_items
       ELSE IF fault = "commit"
       THEN /\ MenuReply("delete_menu_item", fault, "500", CommitFailed)
            /\ UNCHANGED menu_items
       ELSE LET has_orders == \E i \in 1..Len(order_items) :
                                 order_items[i].menu_item_id = item_id
            IN  /\ menu_items' = IF has_orders
                                 THEN [menu_items EXCEPT ![item_id].is_available = FALSE]
                                 ELSE [m \in DOMAIN menu_items \ {item_id} |-> menu_items[m]]
                /\ MenuReply("delete_menu_item", fault, "200", <<Mark("commit")>>)
    /\ UNCHANGED <<now, orders, order_items, bank_transfers, notifications, regvars, ws, tasks, workers>>

HasTransfer(order_id) == \E i \in 1..Len(bank_transfers) : bank_transfers[i].order_id = order_id

\* POST /api/orders/{order_id}/upload-payment-proof
upload_payment_proof(t, caller, order_id, fault, pick) ==
    /\ FreeTask(t)
    /\ now < MaxNow
    /\ LET found == OwnOrder(caller, order_id)
           tk == NewTask("upload_payment_proof", caller, order_id, "", fault,
                         StatusOf(order_id))
       IN  IF ~found
           THEN /\ Settle(t, Fail(tk, "404", pick))
                /\ UNCHANGED <<now, orders, bank_transfers>>
           ELSE IF fault = "commit"
           THEN /\ Settle(t, Fail([tk EXCEPT !.trace = CommitFailed], "500", pick))
                /\ UNCHANGED <<now, orders, bank_transfers>>
           ELSE /\ now' = now + 1
                /\ bank_transfers' =
                      IF HasTransfer(order_id)
                      THEN [i \in 1..Len(bank_transfers) |->
                               IF bank_transfers[i].order_id = order_id
                               THEN [bank_transfers[i] EXCEPT !.updated_at = now + 1]
                               ELSE bank_transfers[i]]
                      ELSE Append(bank_transfers,
                                  [order_id |-> order_id,
                                   amount |-> orders[order_id].total_amount,
                                   verification_status |-> "pending",
                                   updated_at |-> NoTime])
                /\ orders' = [orders EXCEPT ![order_id].payment_status = "pending",
                                            ![order_id].updated_at = now + 1]
                /\ Settle(t, Notify(tk, <<notify_admin_payment_uploaded(
                                             order_id, orders[order_id].order_number)>>, pick))
    /\ UNCHANGED <<menu_items, order_items, notifications, ws, workers>>

\* ---------------------------------------------- app/admin_dashboard.py
ValidStatus_mut(new_status) == new_status \in OrderStatus \cup {"ready"}

\* new_status in [status.value for status in OrderStatusEnum]
ValidStatus(new_status) == new_status \in OrderStatus

StampsReadyTime_mut(new_status) == new_status \in {"ready_for_pickup", "completed"}

\* if new_status == "ready_for_pickup": order.actual_ready_time = utcnow()
StampsReadyTime(new_status) == new_status = "ready_for_pickup"

set_status_mut(order, new_status, clock) ==
    IF order.status \in {"completed", "cancelled"}
    THEN [order EXCEPT !.updated_at = clock]
    ELSE [order EXCEPT !.status = new_status, !.updated_at = clock,
                       !.actual_ready_time =
                           IF new_status = "ready_for_pickup" THEN clock ELSE @]

\* order.status = new_status; order.updated_at = utcnow(); the ready time
set_status(order, new_status, clock) ==
    [order EXCEPT !.status = new_status, !.updated_at = clock,
                  !.actual_ready_time = IF StampsReadyTime(new_status) THEN clock ELSE @]

\* POST /admin/api/orders/{order_id}/update-status
update_order_status(t, order_id, new_status, fault, pick) ==
    /\ FreeTask(t)
    /\ now < MaxNow
    /\ LET tk == NewTask("update_order_status", 0, order_id, new_status, fault,
                         StatusOf(order_id))
       IN  IF ~ValidStatus(new_status) \/ ~OrderExists(order_id) \/ fault = "commit"
           THEN \* HTTPException(400), HTTPException(404) and a failed commit all end
                \* in "except Exception": db.rollback(), HTTPException(500)
                /\ Settle(t, Fail([tk EXCEPT !.trace =
                                      IF ValidStatus(new_status) /\ OrderExists(order_id)
                                      THEN CommitFailed ELSE Failed], "500", pick))
                /\ UNCHANGED <<now, orders>>
           ELSE /\ now' = now + 1
                /\ orders' = [orders EXCEPT
                      ![order_id] = set_status(@, new_status, now + 1)]
                /\ Settle(t, Notify(tk, <<notify_order_status_change(
                                             order_id, orders[order_id].customer_id,
                                             new_status, orders[order_id].order_number)>>, pick))
    /\ UNCHANGED <<menu_items, order_items, bank_transfers, notifications, ws, workers>>

ValidPaymentStatus(new_payment_status) == new_payment_status \in PaymentStatus

AdvancesOrder_mut(order, new_payment_status) ==
    new_payment_status = "completed" /\ order.status # "completed"

\* new_payment_status == "completed" and order.status == "pending_payment"
AdvancesOrder(order, new_payment_status) ==
    new_payment_status = "completed" /\ order.status = "pending_payment"

PaymentCalls_mut(order, new_payment_status, order_status_changed) ==
    LET pay == notify_payment_status_change(order.id, order.customer_id,
                                            new_payment_status, order.order_number)
        st == notify_order_status_change(order.id, order.customer_id,
                                         "payment_confirmed", order.order_number)
    IN  IF order_status_changed THEN <<st, pay>> ELSE <<pay>>

\* the notifications of update_payment_status, in program order
PaymentCalls(order, new_payment_status, order_status_changed) ==
    LET pay == notify_payment_status_change(order.id, order.customer_id,
                                            new_payment_status, order.order_number)
        st == notify_order_status_change(order.id, order.customer_id,
                                         "payment_confirmed", order.order_number)
    IN  IF order_status_changed THEN <<pay, st>> ELSE <<pay>>

\* POST /admin/api/orders/{order_id}/update-payment-status
update_payment_status(t, order_id, new_payment_status, fault, pick) ==
    /\ FreeTask(t)
    /\ now < MaxNow
    /\ LET tk == NewTask("update_payment_status", 0, order_id, new_payment_status, fault,
                         StatusOf(order_id))
       IN  IF ~ValidPaymentStatus(new_payment_status) \/ ~OrderExists(order_id)
              \/ fault = "commit"
           THEN /\ Settle(t, Fail([tk EXCEPT !.trace =
                                      IF ValidPaymentStatus(new_payment_status)
                                         /\ OrderExists(order_id)
                                      THEN CommitFailed ELSE Failed], "500", pick))
                /\ UNCHANGED <<now, orders>>
           ELSE LET order == orders[order_id]
                    order_status_changed == AdvancesOrder(order, new_payment_status)
                IN  /\ now' = now + 1
                    /\ orders' = [orders EXCEPT
                           ![order_id].payment_status = new_payment_status,
                           ![order_id].updated_at = now + 1,
                           ![order_id].status =
                               IF order_status_changed THEN "payment_confirmed" ELSE @]
                    /\ Settle(t, Notify(tk, PaymentCalls(order, new_payment_status,
                                                         order_status_changed), pick))
    /\ UNCHANGED <<menu_items, order_items, bank_transfers, notifications, ws, workers>>

\* ---------------------------------------------- app/websockets.py
\* ConnectionManager.broadcast, called with an arbitrary message
broadcast(t, pick) ==
    /\ FreeTask(t)
    /\ now < MaxNow
    /\ now' = now + 1
    /\ LET tk == [NewTask("broadcast", 0, 0, "", "none", "") EXCEPT
                     !.reg = AllConns(active_connections, admin_connections)]
           m == [NoMsg EXCEPT !.notification_type = "broadcast"]
           items == [i \in 1..Len(active_connections) |->
                        Call("list", active_connections[i].user_id,
                             active_connections[i].lid, m)]
       IN  Settle(t, Proceed([tk EXCEPT !.queue = Append(items, Call("admins", 0, NoWs, m))],
                             active_connections, admin_connections, Live, pick, now + 1))
    /\ UNCHANGED <<dbvars, ws, workers>>

\* a coroutine suspended in "await connection.send_text(...)" is resumed
Step(t, pick) ==
    /\ Quiet
    /\ tasks[t].pc = "run"
    /\ Settle(t, Resume(tasks[t], active_connections, admin_connections, Live, pick, now))
    /\ UNCHANGED <<now, dbvars, ws, workers>>

\* ---------------------------------------------- app/routers/websocket.py
\* websocket_notifications_endpoint / websocket_admin_endpoint, from the
\* token check to the receive loop
Authorized_mut(endpoint, token) == token.sub # 0 /\ token.sub \in Users

\* "if not user_id: close(1008)", "if not user: close(1008)" and, on
\* /ws/admin, "if not user or user.role != UserRole.ADMIN: close(1008)"
Authorized(endpoint, token) ==
    /\ token.sub # 0
    /\ token.sub \in Users
    /\ endpoint = "admin" => UserRole[token.sub] = "admin"

WsOpen(c, endpoint, token) ==
    /\ Quiet
    /\ ws[c].pc = "new"
    /\ \A d \in 1..(c - 1) : ws[d].pc # "new"
    /\ LET tk == NewTask(endpoint, token.sub, 0, IF token.valid THEN "valid" ELSE "invalid",
                         "none", "")
       IN
       IF ~token.valid
       THEN \* decode_access_token raises: logged, the handler returns
            /\ ws' = [ws EXCEPT ![c] = ClosedWs]
            /\ resp' = Response(Return([tk EXCEPT !.trace = <<Mark("raise")>>], "refused"))
            /\ UNCHANGED regvars
       ELSE IF ~Authorized(endpoint, token)
       THEN \* websocket.close(code=1008); the finally clause finds nothing to remove
            /\ ws' = [ws EXCEPT ![c] = ClosedWs]
            /\ resp' = Response(Return([tk EXCEPT !.trace = <<Mark("close")>>], "1008"))
            /\ UNCHANGED regvars
       ELSE LET is_admin == IF endpoint = "admin" THEN TRUE
                            ELSE UserRole[token.sub] = "admin"
                r == connect(active_connections, admin_connections, c, token.sub, is_admin)
            IN  /\ active_connections' = r.ac
                /\ admin_connections' = r.adm
                /\ ws' = [ws EXCEPT ![c] = [pc |-> "open", endpoint |-> endpoint,
                                            user_id |-> token.sub, is_admin |-> is_admin,
                                            alive |-> TRUE]]
                /\ UNCHANGED resp
    /\ UNCHANGED <<now, dbvars, tasks, workers>>

\* the client goes away: from now on a send on the connection raises
PeerDrop(c) ==
    /\ Quiet
    /\ ws[c].pc = "open"
    /\ ws[c].alive
    /\ ws' = [ws EXCEPT ![c].alive = FALSE]
    /\ UNCHANGED <<now, dbvars, regvars, tasks, resp, workers>>

EndpointExit_mut(ac, adm, c, user_id, is_admin) ==
    IF user_id # 0 THEN disconnect(ac, adm, c, user_id, FALSE) ELSE [ac |-> ac, adm |-> adm]

\* finally: if user_id: manager.disconnect(websocket, user_id, is_admin=is_admin)
EndpointExit(ac, adm, c, user_id, is_admin) ==
    IF user_id # 0 THEN disconnect(ac, adm, c, user_id, is_admin) ELSE [ac |-> ac, adm |-> adm]

\* receive_text raises WebSocketDisconnect: break, finally manager.disconnect
WsExit(c) ==
    /\ Quiet
    /\ ws[c].pc = "open"
    /\ ~ws[c].alive
    /\ LET r == EndpointExit(active_connections, admin_connections, c,
                             ws[c].user_id, ws[c].is_admin)
       IN  /\ active_connections' = r.ac
           /\ admin_connections' = r.adm
    /\ ws' = [ws EXCEPT ![c] = ClosedWs]
    /\ UNCHANGED <<now, dbvars, tasks, resp, workers>>

\* GET /api/orders/{order_id}/payment-proof: the caller's order, then its
\* bank transfer record
get_payment_proof(rows, transfers, caller, order_id) ==
    IF ~(order_id \in 1..Len(rows) /\ rows[order_id].customer_id = caller)
    THEN [code |-> "404", detail |-> "Order not found", amount |-> 0,
          verification_status |-> ""]
    ELSE LET Of(r) == r.order_id = order_id
             found == SelectSeq(transfers, Of)
         IN  IF found = <<>>
             THEN [code |-> "404", detail |-> "No payment proof found for this order",
                   amount |-> 0, verification_status |-> ""]
             ELSE [code |-> "200", detail |-> "", amount |-> found[1].amount,
                   verification_status |-> found[1].verification_status]

\* the two read handlers as requests: they answer and change nothing
get_order_request(caller, order_id) ==
    /\ Quiet
    /\ resp' = Response(Return(NewTask("get_order", caller, order_id, "", "none",
                                       StatusOf(order_id)),
                               get_order(orders, order_items, menu_items, caller,
                                         order_id).code))
    /\ UNCHANGED <<now, dbvars, regvars, ws, tasks, workers>>

get_payment_proof_request(caller, order_id) ==
    /\ Quiet
    /\ LET r == get_payment_proof(orders, bank_transfers, caller, order_id)
       IN  resp' = Response(Return(NewTask("get_payment_proof", caller, order_id, r.detail,
                                           "none", StatusOf(order_id)), r.code))
    /\ UNCHANGED <<now, dbvars, regvars, ws, tasks, workers>>

\* ------------------------------------------- several worker processes
\* The same handlers served by other worker processes over the shared
\* database: each runs its query, and later flushes and commits what it
\* changed on the objects it loaded.  A worker process has its own
\* ConnectionManager; no push connection is open on it.
FreeWorker(w) ==
    /\ Quiet
    /\ workers[w].pc = "idle"
    /\ \A v \in 1..(w - 1) : workers[v].pc # "idle"

Loaded(w, op) ==
    /\ Quiet
    /\ workers[w].pc = "loaded"
    /\ workers[w].task.op = op

\* the session's UPDATE: the columns whose value differs from the loaded one
Flush(current, loaded, changed) ==
    [c \in DOMAIN current |-> IF changed[c] # loaded[c] THEN changed[c] ELSE current[c]]

UniqueViolation_mut(rows, order_number) == FALSE

\* order_number = Column(String(50), unique=True, nullable=False)
UniqueViolation(rows, order_number) ==
    \E i \in 1..Len(rows) : rows[i].order_number = order_number

\* the notifications of a worker without connections
WorkerNotify(tk, calls) == Response(Proceed([tk EXCEPT !.trace = Append(@, Mark("commit")),
                                                       !.queue = calls],
                                            <<>>, {}, Live, NoWs, now + 1).task)

cancel_order_query(w, caller, order_id) ==
    /\ FreeWorker(w)
    /\ LET tk == NewTask("cancel_order", caller, order_id, "", "none", StatusOf(order_id))
       IN  IF ~OwnOrder(caller, order_id)
           THEN resp' = Response(Return(tk, "404")) /\ UNCHANGED workers
           ELSE IF ~Cancellable(orders[order_id])
           THEN resp' = Response(Return(tk, "400")) /\ UNCHANGED workers
           ELSE /\ workers' = [workers EXCEPT ![w] = [pc |-> "loaded", task |-> tk,
                                                      row |-> orders[order_id]]]
                /\ UNCHANGED resp
    /\ UNCHANGED <<now, dbvars, regvars, ws, tasks>>

cancel_order_commit(w) ==
    /\ Loaded(w, "cancel_order")
    /\ now < MaxNow
    /\ now' = now + 1
    /\ LET tk == workers[w].task
           row == workers[w].row
       IN  /\ orders' = [orders EXCEPT ![tk.order_id] =
                            Flush(@, row, [row EXCEPT !.status = "cancelled",
                                                      !.updated_at = now + 1])]
           /\ resp' = Response(Return([tk EXCEPT !.trace = <<Mark("commit")>>], "200"))
    /\ workers' = [workers EXCEPT ![w] = IdleWorker]
    /\ UNCHANGED <<menu_items, order_items, bank_transfers, notifications, regvars, ws, tasks>>

update_order_status_query(w, order_id, new_status) ==
    /\ FreeWorker(w)
    /\ LET tk == NewTask("update_order_status", 0, order_id, new_status, "none",
                         StatusOf(order_id))
       IN  IF ~ValidStatus(new_status) \/ ~OrderExists(order_id)
           THEN resp' = Response(Return([tk EXCEPT !.trace = Failed], "500"))
                /\ UNCHANGED workers
           ELSE /\ workers' = [workers EXCEPT ![w] = [pc |-> "loaded", task |-> tk,
                                                      row |-> orders[order_id]]]
                /\ UNCHANGED resp
    /\ UNCHANGED <<now, dbvars, regvars, ws, tasks>>

update_order_status_commit(w) ==
    /\ Loaded(w, "update_order_status")
    /\ now < MaxNow
    /\ now' = now + 1
    /\ LET tk == workers[w].task
           row == workers[w].row
       IN  /\ orders' = [orders EXCEPT ![tk.order_id] =
                            Flush(@, row, set_status(row, tk.arg, now + 1))]
           /\ resp' = WorkerNotify(tk, <<notify_order_status_change(
                                            row.id, row.customer_id, tk.arg,
                                            row.order_number)>>)
    /\ workers' = [workers EXCEPT ![w] = IdleWorker]
    /\ UNCHANGED <<menu_items, order_items, bank_transfers, notifications, regvars, ws, tasks>>

update_payment_status_query(w, order_id, new_payment_status) ==
    /\ FreeWorker(w)
    /\ LET tk == NewTask("update_payment_status", 0, order_id, new_payment_status, "none",
                         StatusOf(order_id))
       IN  IF ~ValidPaymentStatus(new_payment_status) \/ ~OrderExists(order_id)
           THEN resp' = Response(Return([tk EXCEPT !.trace = Failed], "500"))
                /\ UNCHANGED workers
           ELSE /\ workers' = [workers EXCEPT ![w] = [pc |-> "loaded", task |-> tk,
                                                      row |-> orders[order_id]]]
                /\ UNCHANGED resp
    /\ UNCHANGED <<now, dbvars, regvars, ws, tasks>>

update_payment_status_commit(w) ==
    /\ Loaded(w, "update_payment_status")
    /\ now < MaxNow
    /\ now' = now + 1
    /\ LET tk == workers[w].task
           row == workers[w].row
           order_status_changed == AdvancesOrder(row, tk.arg)
           changed == [row EXCEPT !.payment_status = tk.arg,
                                  !.updated_at = now + 1,
                                  !.status = IF order_status_changed
                                             THEN "payment_confirmed" ELSE @]
       IN  /\ orders' = [orders EXCEPT ![tk.order_id] = Flush(@, row, changed)]
           /\ resp' = WorkerNotify(tk, PaymentCalls(row, tk.arg, order_status_changed))
    /\ workers' = [workers EXCEPT ![w] = IdleWorker]
    /\ UNCHANGED <<menu_items, order_items, bank_transfers, notifications, regvars, ws, tasks>>

create_order_query(w, caller, items) ==
    /\ FreeWorker(w)
    /\ Len(orders) < WorkerOrders
    /\ LET order_count == Len(orders) + 1
           tk == [NewTask("create_order", caller, order_count, "", "none", "")
                    EXCEPT !.items = items]
           refused == {i \in 1..Len(items) : ItemRefused(menu_items, items[i])}
           first == CHOOSE i \in refused : \A j \in refused : i <= j
           subtotal == Subtotal(menu_items, items)
       IN  IF refused # {}
           THEN resp' = Response(Return(tk, IF ItemMissing(menu_items, items[first])
                                            THEN "404" ELSE "400"))
                /\ UNCHANGED workers
           ELSE /\ workers' = [workers EXCEPT ![w] =
                                  [pc |-> "loaded", task |-> tk,
                                   row |-> NewOrder(0, order_count, caller, subtotal, 0,
                                                    subtotal)]]
                /\ UNCHANGED resp
    /\ UNCHANGED <<now, dbvars, regvars, ws, tasks>>

create_order_commit(w) ==
    /\ Loaded(w, "create_order")
    /\ LET tk == workers[w].task
           row == workers[w].row
           id == Len(orders) + 1
       IN  IF UniqueViolation(orders, row.order_number)
           THEN \* db.flush() raises IntegrityError: db.rollback(), 500
                /\ resp' = Response(Return([tk EXCEPT !.trace = Failed], "500"))
                /\ UNCHANGED <<now, orders, order_items>>
           ELSE /\ now < MaxNow
                /\ now' = now + 1
                /\ orders' = Append(orders, [row EXCEPT !.id = id])
                /\ order_items' = order_items \o ItemRows(menu_items, id, tk.items)
                /\ resp' = WorkerNotify(tk, <<notify_admin_new_order(
                                                 id, row.order_number, row.total_amount)>>)
    /\ workers' = [workers EXCEPT ![w] = IdleWorker]
    /\ UNCHANGED <<menu_items, bank_transfers, notifications, regvars, ws, tasks>>

\* ------------------------------------------------------ specifications
\* Spec: the order / payment state machine.  Every HTTP handler with every
\* input; the registry holds at most OrderSockets authenticated connections.
ValidTokens == {k \in Tokens : k.valid /\ k.sub \in Users}

Next ==
    \/ \E u \in Users, o \in OrderIdInputs, f \in {"none", "commit"} : cancel_order(u, o, f)
    \/ \E t \in TaskIds, u \in Users, l \in SingleItems,
          f \in {"none", "flush", "commit", "refresh"}, p \in Picks :
            create_order(t, u, l, f, p)
    \/ \E t \in TaskIds, u \in Users, o \in OrderIdInputs, f \in {"none", "commit"},
          p \in Picks : upload_payment_proof(t, u, o, f, p)
    \/ \E t \in TaskIds, o \in OrderIdInputs, s \in StatusInputs, f \in {"none", "commit"},
          p \in Picks : update_order_status(t, o, s, f, p)
    \/ \E t \in TaskIds, o \in OrderIdInputs, s \in PaymentInputs, f \in {"none", "commit"},
          p \in Picks : update_payment_status(t, o, s, f, p)
    \/ \E t \in TaskIds, p \in Picks : Step(t, p)
    \/ \E c \in 1..OrderSockets, e \in {"notifications", "admin"}, k \in ValidTokens :
            WsOpen(c, e, k)
    \/ \E c \in WebSockets : PeerDrop(c)
    \/ \E c \in WebSockets : WsExit(c)
    \/ Reply

Spec == Init /\ [][Next]_vars

\* SpecMenu: orders against a changing menu.  create_order with every item
\* list of up to MaxItems items and every persistence fault, and the admin
\* menu handlers; no push connection is open.
MenuCustomers == {1, 2}

NextMenu ==
    \/ \E t \in TaskIds, u \in MenuCustomers, l \in ItemLists,
          f \in {"none", "flush", "items", "commit", "refresh"} :
            create_order(t, u, l, f, NoWs)
    \/ \E m \in MenuIdInputs, f \in {"none", "commit"} : toggle_menu_availability(m, f)
    \/ \E m \in MenuIdInputs, d \in MenuData, f \in {"none", "commit"} :
            update_menu_item(m, d, f)
    \/ \E m \in MenuIdInputs, f \in {"none", "commit"} : delete_menu_item(m, f)
    \/ Reply

SpecMenu == Init /\ [][NextMenu]_vars

WorkerItems == <<[menu_item_id |-> 1, quantity |-> 1]>>

\* SpecOwn: the customer's handlers on single orders, called by the owner
\* and by other users, with orders that do not exist among the ids.
OwnOrderIds == 1..(MaxOrders + 1)

NextOwn ==
    \/ \E t \in TaskIds, u \in Users : create_order(t, u, WorkerItems, "none", NoWs)
    \/ \E u \in Users, o \in OwnOrderIds : get_order_request(u, o)
    \/ \E u \in Users, o \in OwnOrderIds, f \in {"none", "commit"} : cancel_order(u, o, f)
    \/ \E t \in TaskIds, u \in Users, o \in OwnOrderIds, f \in {"none", "commit"} :
            upload_payment_proof(t, u, o, f, NoWs)
    \/ \E u \in Users, o \in OwnOrderIds : get_payment_proof_request(u, o)
    \/ \E t \in TaskIds, o \in OwnOrderIds : update_payment_status(t, o, "completed", "none", NoWs)
    \/ Reply

SpecOwn == Init /\ [][NextOwn]_vars

\* SpecWorkers: the order handlers served by several worker processes that
\* share the database.
WorkerCustomers == {1, 2}
WorkerStatuses == {"preparing"}
WorkerPayments == {"completed"}

NextWorkers ==
    \/ \E w \in Workers, u \in WorkerCustomers : create_order_query(w, u, WorkerItems)
    \/ \E w \in Workers : create_order_commit(w)
    \/ \E w \in Workers, u \in WorkerCustomers, o \in 1..WorkerOrders :
            cancel_order_query(w, u, o)
    \/ \E w \in Workers : cancel_order_commit(w)
    \/ \E w \in Workers, o \in 1..WorkerOrders, s \in WorkerStatuses :
            update_order_status_query(w, o, s)
    \/ \E w \in Workers : update_order_status_commit(w)
    \/ \E w \in Workers, o \in 1..WorkerOrders, s \in WorkerPayments :
            update_payment_status_query(w, o, s)
    \/ \E w \in Workers : update_payment_status_commit(w)
    \/ Reply

SpecWorkers == Init /\ [][NextWorkers]_vars

\* SpecPush: the notification fan-out.  Every WebSocket action with every
\* token; the HTTP handlers with the inputs that make them notify.
PushItems == <<[menu_item_id |-> 1, quantity |-> 1]>>
PushCustomers == {1, 3}
PushStatuses == {"preparing"}
PushPayments == {"completed"}

NextPush ==
    \/ \E t \in TaskIds, u \in PushCustomers, p \in Picks :
            create_order(t, u, PushItems, "none", p)
    \/ \E t \in TaskIds, o \in OrderIdInputs, s \in PushStatuses, p \in Picks :
            update_order_status(t, o, s, "none", p)
    \/ \E t \in TaskIds, o \in OrderIdInputs, s \in PushPayments, p \in Picks :
            update_payment_status(t, o, s, "none", p)
    \/ \E t \in TaskIds, p \in Picks : broadcast(t, p)
    \/ \E t \in TaskIds, p \in Picks : Step(t, p)
    \/ \E c \in WebSockets, e \in {"notifications", "admin"}, k \in Tokens : WsOpen(c, e, k)
    \/ \E c \in WebSockets : PeerDrop(c)
    \/ \E c \in WebSockets : WsExit(c)
    \/ Reply

SpecPush == Init /\ [][NextPush]_vars

\* SpecPushFair: SpecPush on an event loop that runs every ready coroutine:
\* a response that is ready is sent, and an endpoint handler whose
\* receive_text has raised gets to run its finally clause.
SpecPushFair ==
    /\ SpecPush
    /\ WF_vars(Reply)
    /\ \A c \in WebSockets : SF_vars(WsExit(c))

\* ------------------------------------------------------------ properties
\* the events of the given kinds of a trace, in order
Events(trace, kinds) ==
    LET Test(e) == e.ev \in kinds IN SelectSeq(trace, Test)

Calls(trace) == Events(trace, {"call"})

Sends(trace) == Events(trace, {"delivered", "send_failed"})

Committed(trace) == \E i \in 1..Len(trace) : trace[i].ev = "commit"

\* the events that belong to the manager call entered at trace[i]
Segment(trace, i) ==
    {j \in (i + 1)..Len(trace) : \A k \in (i + 1)..j : trace[k].ev # "call"}

\* the connections registered for the addressee of call event e
Registered(ac, adm, e) ==
    IF e.target = "admins" THEN adm ELSE Range(ConnsOf(ac, e.user))

\* the requests whose handler starts in this step, as the handler sees them
\* sum of the total_price column of a sequence of order_items rows
RECURSIVE RowsTotal(_)
RowsTotal(rows) ==
    IF rows = <<>> THEN 0 ELSE Head(rows).total_price + RowsTotal(Tail(rows))

\* the order_items rows of one order
RowsOf(item_rows, order_id) ==
    LET Mine(r) == r.order_id = order_id IN SelectSeq(item_rows, Mine)

\* the priced part of a get_order answer
Priced(view) ==
    [code |-> view.code,
     total_amount |-> view.total_amount,
     items |-> [i \in 1..Len(view.items) |->
                   [quantity |-> view.items[i].quantity,
                    unit_price |-> view.items[i].unit_price,
                    total_price |-> view.items[i].total_price]]]

Started ==
    {Response(tasks'[t]) : t \in {s \in TaskIds : tasks[s].pc = "idle" /\ tasks'[s].pc = "run"}}
    \cup (IF Quiet /\ resp' # NoResponse /\ tasks' = tasks THEN {resp'} ELSE {})

\* the traces that grow in this step: <<trace before, trace after>>
Ran ==
    {<<tasks[t].trace, tasks'[t].trace>> :
        t \in {s \in TaskIds : tasks'[s].pc = "run" /\ tasks'[s] # tasks[s]}}
    \cup (IF Quiet /\ resp' # NoResponse
          THEN {<<IF \E t \in TaskIds : tasks[t].pc = "run" /\ tasks'[t].pc = "idle"
                  THEN tasks[CHOOSE t \in TaskIds :
                                 tasks[t].pc = "run" /\ tasks'[t].pc = "idle"].trace
                  ELSE <<>>,
                  resp'.trace>>}
          ELSE {})

\* C1: cancel_order on an order of the caller succeeds exactly when the
\* order's status is pending_payment, and then the status is cancelled; in
\* every other status (and when the commit fails) the request fails and the
\* status stays what it was.
C1_CancelOnlyPending ==
    (resp.op = "cancel_order" /\ OwnOrder(resp.caller, resp.order_id)) =>
        /\ resp.fault = "none" => (resp.result = "200" <=> resp.before = "pending_payment")
        /\ resp.result = "200" =>
              /\ resp.before = "pending_payment"
              /\ orders[resp.order_id].status = "cancelled"
        /\ resp.result # "200" => orders[resp.order_id].status = resp.before

C1_Witness ==
    /\ resp.op = "cancel_order"
    /\ OwnOrder(resp.caller, resp.order_id)
    /\ resp.before = "payment_confirmed"
    /\ resp.result = "400"
    /\ orders[resp.order_id].status = "payment_confirmed"

\* C2: update_payment_status changes the status of the order exactly when
\* the new payment status is "completed" and the order is pending_payment;
\* the status then becomes payment_confirmed in the commit that stores the
\* payment status.  In every other case no order status changes.
C2_PaymentAdvancesOrder ==
    [][\A q \in Started :
          (q.op = "update_payment_status" /\ OrderExists(q.order_id)) =>
              LET o == q.order_id
                  paid == q.arg = "completed" /\ orders[o].status = "pending_payment"
              IN  /\ orders'[o].status # orders[o].status =>
                        /\ paid
                        /\ Committed(q.trace)
                        /\ orders'[o].status = "payment_confirmed"
                        /\ orders'[o].payment_status = "completed"
                  /\ (paid /\ q.fault = "none") =>
                        /\ orders'[o].status = "payment_confirmed"
                        /\ orders'[o].payment_status = "completed"
                  /\ Len(orders') = Len(orders)
                  /\ \A i \in 1..Len(orders) : i # o => orders'[i] = orders[i]]_vars

C2_Witness ==
    /\ resp.op = "update_payment_status"
    /\ resp.before = "pending_payment"
    /\ resp.arg = "completed"
    /\ resp.result = "200"
    /\ orders[resp.order_id].status = "payment_confirmed"
    /\ orders[resp.order_id].payment_status = "completed"

\* C3: an update_payment_status that confirms the payment of a
\* pending_payment order dispatches exactly two notifications to the order's
\* customer, the payment-status one first and then the order-status one with
\* payment_confirmed; any other committed update_payment_status dispatches
\* exactly one, the payment-status notification.
C3_PaymentNotifications ==
    (resp.op = "update_payment_status" /\ Committed(resp.trace)) =>
        LET order == orders[resp.order_id]
            calls == Calls(resp.trace)
            sends == Sends(resp.trace)
            kinds == [i \in 1..Len(calls) |->
                         <<calls[i].msg.notification_type, calls[i].msg.status>>]
        IN  /\ resp.result = "200"
            /\ \A i \in 1..Len(calls) :
                  /\ calls[i].target = "user"
                  /\ calls[i].user = order.customer_id
                  /\ calls[i].msg.order_id = order.id
                  /\ calls[i].msg.order_number = order.order_number
            /\ kinds = IF resp.arg = "completed" /\ resp.before = "pending_payment"
                       THEN << <<"payment_status", "completed">>,
                               <<"order_status", "payment_confirmed">> >>
                       ELSE << <<"payment_status", resp.arg>> >>
            /\ \A i, j \in 1..Len(sends) :
                  i < j => ~(/\ sends[i].msg.notification_type = "order_status"
                             /\ sends[j].msg.notification_type = "payment_status")

C3_Witness ==
    /\ resp.op = "update_payment_status"
    /\ resp.before = "pending_payment"
    /\ resp.arg = "completed"
    /\ LET sends == Sends(resp.trace)
       IN  /\ Len(sends) = 2
           /\ sends[1].ev = "delivered" /\ sends[1].msg.notification_type = "payment_status"
           /\ sends[2].ev = "delivered" /\ sends[2].msg.notification_type = "order_status"
           /\ sends[2].msg.status = "payment_confirmed"

\* C4: update_order_status with a status that is not an OrderStatus fails at
\* once, leaves every order row (status, updated_at, actual_ready_time) as it
\* was and notifies nobody; so the status of every order is always one of the
\* seven OrderStatus values.
C4_UnknownStatusRejected ==
    [][/\ \A q \in Started :
             (q.op = "update_order_status" /\ q.arg \notin OrderStatus) =>
                 /\ q.result = "500"
                 /\ orders' = orders
                 /\ ~Committed(q.trace)
                 /\ Calls(q.trace) = <<>>
                 /\ Sends(q.trace) = <<>>
       /\ \A i \in 1..Len(orders') : orders'[i].status \in OrderStatus]_vars

C4_Witness ==
    /\ resp.op = "update_order_status"
    /\ resp.arg = "ready"
    /\ OrderExists(resp.order_id)
    /\ resp.result = "500"
    /\ orders[resp.order_id].status = resp.before
    /\ orders[resp.order_id].updated_at = NoTime

\* C5: completed and cancelled are terminal: no step changes the status of
\* an order that is completed or cancelled.
C5_TerminalStatesStay ==
    [][\A i \in 1..Len(orders) :
          orders[i].status \in {"completed", "cancelled"} =>
              orders'[i].status = orders[i].status]_vars

\* C6: update_order_status on an existing order with a recognized new_status
\* sets the order's status to new_status whatever the current status is, and
\* answers 200 (no persistence fault injected).
C6_AdminOverride ==
    [][/\ \A q \in Started :
             (/\ q.op = "update_order_status"
              /\ q.arg \in OrderStatus
              /\ OrderExists(q.order_id)
              /\ q.fault = "none") =>
                 /\ Committed(q.trace)
                 /\ orders'[q.order_id].status = q.arg
       /\ (/\ resp' # NoResponse
           /\ resp'.op = "update_order_status"
           /\ resp'.arg \in OrderStatus
           /\ resp'.order_id \in 1..Len(orders')
           /\ resp'.fault = "none") => resp'.result = "200"]_vars

C6_Witness ==
    /\ resp.op = "update_order_status"
    /\ resp.before = "completed"
    /\ resp.arg = "pending_payment"
    /\ resp.result = "200"
    /\ orders[resp.order_id].status = "pending_payment"

\* C7: a successful update_order_status enters the manager exactly once,
\* with an order-status message for the order's customer that carries the
\* order number and the new status; every send of the request goes to a
\* connection that was registered for that customer, never to a connection
\* of another user or of the admin set.
C7_OneStatusNotification ==
    (resp.op = "update_order_status" /\ resp.result = "200") =>
        LET order == orders[resp.order_id]
            calls == Calls(resp.trace)
            sends == Sends(resp.trace)
        IN  /\ Len(calls) = 1
            /\ calls[1].target = "user"
            /\ calls[1].user = order.customer_id
            /\ calls[1].msg.notification_type = "order_status"
            /\ calls[1].msg.order_id = order.id
            /\ calls[1].msg.order_number = order.order_number
            /\ calls[1].msg.status = resp.arg
            /\ \A i \in 1..Len(sends) :
                  /\ sends[i].user = order.customer_id
                  /\ sends[i].target = "user"
                  /\ sends[i].msg = calls[1].msg
            /\ \A i, j \in 1..Len(sends) : sends[i].ws = sends[j].ws => i = j

C7_Witness ==
    /\ resp.op = "update_order_status"
    /\ resp.result = "200"
    /\ admin_connections # {}
    /\ LET sends == Sends(resp.trace)
       IN  /\ Len(sends) = 1
           /\ sends[1].ev = "delivered"
           /\ sends[1].ws \notin admin_connections

\* C8: in update_order_status, update_payment_status, create_order and
\* upload_payment_proof nothing is dispatched before the commit; when the
\* commit fails the handler rolls back, leaves the database as it was,
\* answers 500 and dispatches nothing.
C8_CommitBeforeNotify ==
    [][LET Ops == {"update_order_status", "update_payment_status", "create_order",
                   "upload_payment_proof"}
           Ordered(T) ==
               \A i \in 1..Len(T) :
                   T[i].ev \in {"call", "delivered", "send_failed"} =>
                       \E j \in 1..(i - 1) : T[j].ev = "commit"
       IN  /\ \A r \in Ran : Ordered(r[2])
           /\ \A q \in Started :
                 (q.op \in Ops /\ \E i \in 1..Len(q.trace) : q.trace[i].ev = "commit_failed") =>
                     /\ q.trace = <<Mark("commit_failed"), Mark("rollback")>>
                     /\ q.result = "500"
                     /\ UNCHANGED dbvars]_vars

C8_Witness ==
    /\ resp.op = "update_order_status"
    /\ resp.fault = "commit"
    /\ resp.trace = CommitFailed
    /\ resp.result = "500"
    /\ OrderExists(resp.order_id)
    /\ ConnsOf(active_connections, orders[resp.order_id].customer_id) # <<>>
    /\ orders[resp.order_id].status = resp.before

\* C9: a personal message for a user with two registered connections that
\* both stay registered is delivered once to each; a send only ever goes to
\* a connection registered for the addressee at that moment; and when the
\* endpoint of a user connection exits, the user's registry entry loses
\* exactly that connection.
C9_TwoConnections ==
    [][/\ \A r \in Ran : \A i \in (Len(r[1]) + 1)..Len(r[2]) :
             r[2][i].ev = "end" =>
                 \A k \in 1..(i - 1) :
                     (/\ r[2][k].ev = "call"
                      /\ i \in Segment(r[2], k)
                      /\ r[2][k].target = "user"
                      /\ Cardinality(r[2][k].targets) = 2
                      /\ r[2][k].targets \subseteq
                             Range(ConnsOf(active_connections', r[2][k].user))) =>
                         \A c \in r[2][k].targets :
                             Cardinality({j \in Segment(r[2], k) :
                                            /\ r[2][j].ev = "delivered"
                                            /\ r[2][j].ws = c
                                            /\ r[2][j].msg = r[2][k].msg}) = 1
       /\ \A r \in Ran : \A i \in (Len(r[1]) + 1)..Len(r[2]) :
             r[2][i].ev \in {"delivered", "send_failed"} =>
                 \E k \in 1..(i - 1) :
                     /\ r[2][k].ev = "call"
                     /\ i \in Segment(r[2], k)
                     /\ r[2][i].ws \in Registered(active_connections',
                                                  admin_connections', r[2][k])
       /\ \A c \in WebSockets :
             (ws[c].pc = "open" /\ ws'[c].pc = "closed" /\ ~ws[c].is_admin) =>
                 ConnsOf(active_connections', ws[c].user_id) =
                     ListRemove(ConnsOf(active_connections, ws[c].user_id), c)]_vars

C9_Witness ==
    /\ resp.op = "update_payment_status"
    /\ LET T == resp.trace
           calls == Calls(T)
           sends == Sends(T)
       IN  /\ Len(calls) = 2
           /\ Cardinality(calls[1].targets) = 2
           /\ Cardinality(calls[2].targets) = 1
           /\ Len(sends) = 3
           /\ \A i \in 1..3 : sends[i].ev = "delivered"
           /\ sends[1].ws # sends[2].ws
           /\ calls[2].targets = {sends[3].ws}
           /\ ConnsOf(active_connections, calls[1].user) = <<sends[3].ws>>

\* C10: in one manager call a failed send does not keep the other target
\* connections from being served, the call returns without raising, and
\* afterwards exactly the connections whose send failed have been removed:
\* every target that is still registered was served, every failed connection
\* is gone and every served one is still there unless its own endpoint exited.
C10_FailureIsolation ==
    resp # NoResponse =>
        \A k \in 1..Len(resp.trace) :
            LET T == resp.trace
                seg == Segment(T, k)
                failed == {T[j].ws : j \in {i \in seg : T[i].ev = "send_failed"}}
                served == {T[j].ws : j \in {i \in seg : T[i].ev = "delivered"}}
                here == Registered(active_connections, admin_connections, T[k])
            IN  (T[k].ev = "call" /\ failed # {}) =>
                    /\ \E j \in seg : T[j].ev = "end"
                    /\ \A j \in seg : T[j].ev # "raise"
                    /\ \A c \in T[k].targets : c \in failed \cup served \/ c \notin here
                    /\ failed \cap here = {}
                    /\ \A c \in served \ failed : c \in here \/ ws[c].pc = "closed"

\* C11: no user id maps to an empty connection list: when the last
\* connection of a user is removed, by the exit of its endpoint or by the
\* pruning that follows a failed send, the user's entry is deleted with it.
C11_NoEmptyEntry ==
    /\ \A i \in 1..Len(active_connections) : active_connections[i].conns # <<>>
    /\ \A i, j \in 1..Len(active_connections) :
          active_connections[i].user_id = active_connections[j].user_id => i = j

C11_Witness ==
    /\ resp.op = "update_order_status"
    /\ LET sends == Sends(resp.trace)
           calls == Calls(resp.trace)
       IN  /\ Len(sends) = 1
           /\ sends[1].ev = "send_failed"
           /\ calls[1].targets = {sends[1].ws}
           /\ ws[sends[1].ws].pc = "open"
           /\ ~HasUser(active_connections, calls[1].user)

\* C12: a manager call that finds no connection for its target (a user
\* absent from the registry, an empty admin set) sends nothing and returns
\* without raising; a request all of whose calls are of that kind finishes
\* at once and leaves the registry as it was, so nothing is left to deliver
\* to a connection that registers later.
C12_NoTargetNoOp ==
    [][/\ \A r \in Ran : \A k \in (Len(r[1]) + 1)..Len(r[2]) :
             (r[2][k].ev = "call" /\ r[2][k].targets = {}) =>
                 /\ k < Len(r[2])
                 /\ r[2][k + 1].ev = "end"
       /\ \A q \in Started :
             (/\ Calls(q.trace) # <<>>
              /\ \A k \in 1..Len(q.trace) : q.trace[k].ev = "call" => q.trace[k].targets = {}) =>
                 /\ q.result \in {"200", "returned"}
                 /\ Sends(q.trace) = <<>>
                 /\ UNCHANGED regvars
                 /\ \A t \in TaskIds : tasks'[t] = tasks[t]]_vars

C12_Witness ==
    /\ resp.op = "update_payment_status"
    /\ resp.result = "200"
    /\ Len(Calls(resp.trace)) = 2
    /\ \A k \in 1..2 : Calls(resp.trace)[k].targets = {}
    /\ Sends(resp.trace) = <<>>
    /\ \E c \in WebSockets : /\ ws[c].pc = "open"
                             /\ ~ws[c].is_admin
                             /\ ws[c].user_id # Calls(resp.trace)[1].user

\* C13: a finished broadcast has delivered its message exactly once to every
\* live connection that was registered (in a user's list or in the admin
\* set) when the call started and is still registered when it ends.
C13_BroadcastDelivers ==
    resp.op = "broadcast" =>
        \A c \in resp.reg \cap AllConns(active_connections, admin_connections) :
            ws[c].alive =>
                Cardinality({j \in 1..Len(resp.trace) :
                                /\ resp.trace[j].ev = "delivered"
                                /\ resp.trace[j].ws = c}) = 1

\* C14: no connection is at once in the admin set and in a user's list; a
\* registered connection sits in exactly the one collection its is_admin
\* flag selected at connect time.
C14_AdminOrUser ==
    /\ admin_connections \cap AllUserConns(active_connections) = {}
    /\ \A c \in WebSockets :
          /\ c \in admin_connections => ws[c].pc = "open" /\ ws[c].is_admin
          /\ c \in AllUserConns(active_connections) => ws[c].pc = "open" /\ ~ws[c].is_admin

C14_Witness ==
    /\ admin_connections # {}
    /\ AllUserConns(active_connections) # {}
    /\ \E c \in admin_connections : ws[c].endpoint = "notifications"

\* C15: a connection enters the registry only in the step that opens it, and
\* only when its token decoded as valid with a subject that is an existing
\* user; it enters the admin set only for a user whose role is admin (on
\* /ws/admin nobody else is registered at all).  A connection whose
\* authentication fails is closed unregistered, and a closed connection is
\* never in the registry again.
C15_AuthBeforeRegister ==
    [][/\ \A c \in WebSockets, e \in {"notifications", "admin"}, k \in Tokens :
             WsOpen(c, e, k) =>
                LET ok == /\ k.valid
                          /\ k.sub \in Users
                          /\ e = "admin" => UserRole[k.sub] = "admin"
                    reg == AllConns(active_connections', admin_connections')
                IN  /\ c \in reg <=> ok
                    /\ c \in admin_connections' => UserRole[k.sub] = "admin"
                    /\ ~ok => ws'[c].pc = "closed" /\ UNCHANGED regvars
       /\ \A c \in WebSockets :
             /\ (/\ c \notin AllConns(active_connections, admin_connections)
                 /\ c \in AllConns(active_connections', admin_connections'))
                   => ws[c].pc = "new" /\ ws'[c].pc = "open"
             /\ ws[c].pc = "closed" =>
                   /\ ws'[c].pc = "closed"
                   /\ c \notin AllConns(active_connections', admin_connections')]_vars

C15_Witness ==
    /\ resp.op = "admin"
    /\ resp.result = "1008"
    /\ resp.caller \in Users
    /\ UserRole[resp.caller] # "admin"
    /\ \E c \in admin_connections : ws[c].endpoint = "admin"
    /\ \E c \in WebSockets : ws[c].pc = "closed" /\ c \notin admin_connections

\* C16: a push endpoint that refuses a connection (undecodable or expired
\* token, no subject, unknown user, non-admin on /ws/admin) closes it with
\* code 1008, and that close is the only thing it does on the socket.
C16_AuthFailureCloses1008 ==
    resp.op \in {"notifications", "admin"} =>
        /\ resp.result = "1008"
        /\ Events(resp.trace, {"close"}) # <<>>
        /\ Sends(resp.trace) = <<>>

\* C17: a create_order request with an item whose menu row has a status
\* other than "available" fails (400, or 404 when an item before it does
\* not exist), wherever in the list that item stands; the orders and
\* order_items tables stay as they were and no notification call is made.
C17_UnavailableItemRejected ==
    [][\A q \in Started :
          (/\ q.op = "create_order"
           /\ \E i \in 1..Len(q.items) :
                 /\ q.items[i].menu_item_id \in DOMAIN menu_items
                 /\ menu_items[q.items[i].menu_item_id].status # "available")
          => /\ q.result \in {"400", "404"}
             /\ (\A i \in 1..Len(q.items) : q.items[i].menu_item_id \in DOMAIN menu_items)
                   => q.result = "400"
             /\ orders' = orders
             /\ order_items' = order_items
             /\ Calls(q.trace) = <<>>
             /\ ~Committed(q.trace)]_vars

C17_Witness ==
    /\ resp.op = "create_order"
    /\ resp.result = "400"
    /\ Len(resp.items) = 2
    /\ menu_items[resp.items[1].menu_item_id].status = "available"
    /\ menu_items[resp.items[2].menu_item_id].status = "unavailable"
    /\ orders = <<>>
    /\ order_items = <<>>

C19_PriceSnapshot ==
    [][/\ \A u \in Users, o \in 1..Len(orders) :
             Priced(get_order(orders', order_items', menu_items', u, o))
                = Priced(get_order(orders, order_items, menu_items, u, o))
       /\ \A q \in Started :
             (q.op = "create_order" /\ Len(orders') > Len(orders)) =>
                LET view == get_order(orders', order_items', menu_items',
                                      q.caller, q.order_id)
                IN  /\ view.code = "200"
                    /\ Len(view.items) = Len(q.items)
                    /\ \A i \in 1..Len(q.items) :
                          /\ view.items[i].quantity = q.items[i].quantity
                          /\ view.items[i].unit_price
                                = menu_items[q.items[i].menu_item_id].price
                          /\ view.items[i].total_price
                                = menu_items[q.items[i].menu_item_id].price
                                  * q.items[i].quantity
                    /\ view.total_amount = RowsTotal(view.items)]_vars

C19_Witness ==
    /\ resp.op \in {"update_menu_item", "delete_menu_item"}
    /\ resp.result = "200"
    /\ Len(orders) = 1
    /\ LET view == get_order(orders, order_items, menu_items, orders[1].customer_id, 1)
       IN  /\ view.code = "200"
           /\ \E i \in 1..Len(view.items) :
                 /\ view.items[i].menu_item.price # view.items[i].unit_price
                 /\ ~view.items[i].menu_item.is_available
           /\ view.total_amount = RowsTotal(view.items)

\* C20: whatever happens to a create_order request (refused item, failure
\* of the flush, of an item insert, of the commit, or of the reload after
\* the commit), the tables afterwards hold either the order row together
\* with one order_items row for each requested item, or neither the order
\* row nor any of its item rows.
C20_AllOrNothing ==
    [][\A q \in Started :
          q.op = "create_order" =>
             \/ /\ orders' = orders
                /\ order_items' = order_items
                /\ RowsOf(order_items', q.order_id) = <<>>
                /\ ~Committed(q.trace)
             \/ /\ Len(orders') = Len(orders) + 1
                /\ orders'[q.order_id].customer_id = q.caller
                /\ SubSeq(orders', 1, Len(orders)) = orders
                /\ order_items' = order_items \o RowsOf(order_items', q.order_id)
                /\ Len(RowsOf(order_items', q.order_id)) = Len(q.items)
                /\ \A i \in 1..Len(q.items) :
                      /\ RowsOf(order_items', q.order_id)[i].menu_item_id
                            = q.items[i].menu_item_id
                      /\ RowsOf(order_items', q.order_id)[i].quantity = q.items[i].quantity
                /\ Committed(q.trace)]_vars

C20_Witness ==
    /\ resp.op = "create_order"
    /\ resp.fault = "items"
    /\ resp.result = "500"
    /\ Len(resp.items) = 2
    /\ orders = <<>>
    /\ order_items = <<>>
    /\ \A i \in 1..2 : menu_items[resp.items[i].menu_item_id].status = "available"

\* C21: a request of create_order, upload_payment_proof, update_order_status
\* or update_payment_status whose commit succeeded and whose notification
\* fan-out was entered reports success, whatever the sends and the other
\* handlers do during the fan-out.
C21_SuccessAfterCommit ==
    (/\ resp.op \in {"create_order", "upload_payment_proof",
                     "update_order_status", "update_payment_status"}
     /\ Committed(resp.trace)
     /\ Calls(resp.trace) # <<>>)
    => resp.result = "200"

\* C22: when update_order_status or update_payment_status has dispatched a
\* push notification to the order's customer, the notifications table holds a
\* row addressed to that customer and linked to the order.
C22_NotificationStored ==
    (/\ resp.op \in {"update_order_status", "update_payment_status"}
     /\ Calls(resp.trace) # <<>>)
    => \E i \in 1..Len(notifications) :
          /\ notifications[i].user_id = orders[resp.order_id].customer_id
          /\ notifications[i].order_id = resp.order_id

\* C23: an update_order_status that commits stamps the order's updated_at
\* with the time of the call, stamps actual_ready_time with it exactly when
\* the new status is ready_for_pickup, and leaves actual_ready_time as it was
\* for every other new status.
C23_ReadyTime ==
    [][\A q \in Started :
          (q.op = "update_order_status" /\ Committed(q.trace)) =>
             /\ orders'[q.order_id].updated_at = now'
             /\ now' > now
             /\ q.arg = "ready_for_pickup" => orders'[q.order_id].actual_ready_time = now'
             /\ q.arg # "ready_for_pickup" =>
                   orders'[q.order_id].actual_ready_time = orders[q.order_id].actual_ready_time]_vars

C23_Witness ==
    /\ resp.op = "update_order_status"
    /\ resp.before = "ready_for_pickup"
    /\ resp.arg = "completed"
    /\ resp.result = "200"
    /\ orders[resp.order_id].actual_ready_time # NoTime
    /\ orders[resp.order_id].updated_at > orders[resp.order_id].actual_ready_time

\* C24: cancel_order racing with update_payment_status or update_order_status
\* on one pending_payment order: a cancel_order commits only while the
\* committed status is still pending_payment, and an admin request that
\* loaded the order as pending_payment does not overwrite the status a
\* successful cancel_order has committed meanwhile.
C24_NoDoubleTransition ==
    [][\A w \in Workers :
          LET tk == workers[w].task IN
          (/\ workers[w].pc = "loaded"
           /\ workers'[w].pc = "idle"
           /\ workers[w].row.status = "pending_payment"
           /\ resp'.result = "200")
          => /\ tk.op = "cancel_order"
                => orders[tk.order_id].status = "pending_payment"
             /\ (/\ tk.op \in {"update_payment_status", "update_order_status"}
                 /\ orders[tk.order_id].status = "cancelled")
                => orders'[tk.order_id].status = "cancelled"]_vars

\* C25: no two persisted orders have the same order_number, whichever worker
\* processes served the create_order requests.
C25_UniqueOrderNumber ==
    \A i, j \in 1..Len(orders) : i # j => orders[i].order_number # orders[j].order_number

\* a create_order that counted the orders before another worker's insert is
\* refused, and the other worker's order is persisted under that number
C25_Witness ==
    /\ resp.op = "create_order"
    /\ resp.result = "500"
    /\ \E i \in 1..Len(orders) : orders[i].order_number = OrderNumber(resp.order_id)

\* C26: a send_personal_message call delivers to every connection of the
\* user that is registered when the call starts and still registered when
\* the request ends, whatever connects or disconnects while it is suspended.
C26_NoLiveConnectionSkipped ==
    resp.op \in {"update_order_status", "update_payment_status"} =>
        \A k \in 1..Len(resp.trace) :
            LET T == resp.trace
                seg == Segment(T, k)
                here == Registered(active_connections, admin_connections, T[k])
            IN  (T[k].ev = "call" /\ T[k].target = "user") =>
                    \A c \in T[k].targets \cap here :
                        \E j \in seg : T[j].ev = "delivered" /\ T[j].ws = c

\* C27: a registered connection whose client has gone is eventually removed,
\* and once its endpoint handler has terminated it is in neither a user's
\* list nor the admin set.
C27_EventuallyRemoved ==
    \A c \in WebSockets :
        /\ [](ws[c].pc = "closed" =>
                 c \notin AllConns(active_connections, admin_connections))
        /\ (ws[c].pc = "open" /\ ~ws[c].alive)
               ~> (/\ ws[c].pc = "closed"
                   /\ c \notin AllConns(active_connections, admin_connections))

\* a connection that was served by the request now answered has lost its
\* client and its handler has terminated; another one is still registered
C27_Witness ==
    /\ \E i \in 1..Len(resp.trace) :
          /\ resp.trace[i].ev = "delivered"
          /\ ws[resp.trace[i].ws].pc = "closed"
          /\ resp.trace[i].target = "admins"
    /\ AllConns(active_connections, admin_connections) # {}

\* C28: while a menu item is marked unavailable (is_available false, as
\* toggle-availability, update_menu_item with available=false and
\* delete_menu_item on an item with orders leave it), every create_order
\* that references it fails and stores no order.
C28_UnavailableStaysRefused ==
    [][\A q \in Started :
          (/\ q.op = "create_order"
           /\ \E i \in 1..Len(q.items) :
                 /\ q.items[i].menu_item_id \in DOMAIN menu_items
                 /\ ~menu_items[q.items[i].menu_item_id].is_available)
          => /\ q.result # "200"
             /\ orders' = orders]_vars

\* C29: get_order, cancel_order, upload_payment_proof and get_payment_proof
\* called with the id of an order that belongs to another user answer 404
\* and leave the orders table and the payment proof records as they were.
C29_OwnOrdersOnly ==
    [][\A q \in Started :
          (/\ q.op \in {"get_order", "cancel_order", "upload_payment_proof",
                        "get_payment_proof"}
           /\ OrderExists(q.order_id)
           /\ orders[q.order_id].customer_id # q.caller)
          => /\ q.result = "404"
             /\ orders' = orders
             /\ bank_transfers' = bank_transfers
             /\ Calls(q.trace) = <<>>]_vars

\* another user asks for the payment proof of a paid order that has one
C29_Witness ==
    /\ resp.op = "get_payment_proof"
    /\ resp.result = "404"
    /\ OrderExists(resp.order_id)
    /\ orders[resp.order_id].customer_id # resp.caller
    /\ orders[resp.order_id].payment_status = "completed"
    /\ HasTransfer(resp.order_id)

\* C30: a connection that an admin-role user opened on /ws/notifications is
\* registered in the admin set only as long as it is live; no
\* send_personal_message call, to that user's id or any other, sends to it; and every send_to_admins call made
\* while it is registered delivers to it.
C30_AdminOnNotifications ==
    \A c \in WebSockets :
        (/\ ws[c].pc = "open"
         /\ ws[c].alive
         /\ ws[c].endpoint = "notifications"
         /\ UserRole[ws[c].user_id] = "admin")
        => /\ c \in admin_connections
           /\ c \notin AllUserConns(active_connections)
           /\ \A k \in 1..Len(resp.trace) :
                 LET T == resp.trace
                     seg == Segment(T, k)
                 IN  /\ (T[k].ev = "call" /\ T[k].target = "user") =>
                            /\ c \notin T[k].targets
                            /\ \A j \in seg : T[j].ws # c
                     /\ (T[k].ev = "call" /\ T[k].target = "admins"
                         /\ c \in T[k].targets) =>
                            \E j \in seg : T[j].ev = "delivered" /\ T[j].ws = c

====
